---- MODULE Spec2Model ----
(***************************************************************************)
(* A model of the DataStore / Broadcaster pair of @bungie/datastore.       *)
(*                                                                         *)
(* The JavaScript run-time is modelled by two queues: microQ holds the     *)
(* promise reactions (run first-in first-out, and drained before the next  *)
(* animation-frame callback runs) and rafQ holds the callbacks handed to   *)
(* requestAnimationFrame (run first-in first-out).  The calls a client     *)
(* makes (an action, observe, a destroy handle, destroyAll) are            *)
(* synchronous and may happen between any two queue steps.                 *)
(***************************************************************************)
EXTENDS Integers, Sequences, FiniteSets, TLC

\* Bounds of the model.
MaxObservers == 2
MaxActions == 2

Fields == {"items", "n"}

\* Primitive values of the field n: the numbers 0 and 1 and the string "1".
\* v is the value ToNumber gives, which is what == compares.
Num0 == [t |-> "number", v |-> 0]
Num1 == [t |-> "number", v |-> 1]
Str1 == [t |-> "string", v |-> 1]

Milk == [label |-> "milk", checked |-> FALSE]

InitialState == [items |-> <<>>, n |-> Num0]

\* A partial state: the keys it has, and their values (InitialState's value
\* stands at the keys it does not have).
NoPartial == [keys |-> {}, val |-> InitialState]

\* The transition functions of the store: add is the README's append,
\* setNum and setStr write the field n, none returns {} and bad returns null.
Transitions == {"add", "setNum", "setStr", "none", "bad"}

\* The calls made: every transition function returning its result, and add
\* and bad also returning a promise of it.
Calls == (Transitions \X {"sync"}) \cup ({"add", "bad"} \X {"deferred"})

\* createActions: `!result || typeof result !== "object"`
ChecksNothing(fn) == FALSE

ReturnsNull(fn) == fn = "bad"

\* The transition functions, given the state s the action was called in.
TransitionFromInitialState(fn, s) ==
    CASE fn = "add"    -> [keys |-> {"items"},
                           val |-> [items |-> Append(InitialState.items, Milk),
                                    n |-> InitialState.n]]
      [] fn = "setNum" -> [keys |-> {"n"}, val |-> [items |-> <<>>, n |-> Num1]]
      [] fn = "setStr" -> [keys |-> {"n"}, val |-> [items |-> <<>>, n |-> Str1]]
      [] OTHER         -> NoPartial

Transition(fn, s) ==
    CASE fn = "add"    -> [keys |-> {"items"},
                           val |-> [items |-> Append(s.items, Milk), n |-> InitialState.n]]
      [] fn = "setNum" -> [keys |-> {"n"}, val |-> [items |-> <<>>, n |-> Num1]]
      [] fn = "setStr" -> [keys |-> {"n"}, val |-> [items |-> <<>>, n |-> Str1]]
      [] OTHER         -> NoPartial

\* {...s, ...p}
MergeDropsOthers(s, p) ==
    [k \in Fields |-> IF k \in p.keys THEN p.val[k] ELSE InitialState[k]]

Merge(s, p) ==
    [k \in Fields |-> IF k \in p.keys THEN p.val[k] ELSE s[k]]

\* deep-equal without opts.strict: leaves are compared with ==, arrays and
\* objects element by element.
LooseEq(a, b) == a.v = b.v

deepEqual(a, b) ==
    /\ Len(a.items) = Len(b.items)
    /\ \A i \in 1..Len(a.items) :
          /\ a.items[i].label = b.items[i].label
          /\ a.items[i].checked = b.items[i].checked
    /\ LooseEq(a.n, b.n)

VARIABLES
    state,          \* DataStore._internalState
    propsRequired,  \* Broadcaster.params.propsRequired
    observers,      \* Broadcaster.observers, in insertion order (observer ids)
    obsInfo,        \* the observers ever built: how their callback behaves
    pendingUpdates, \* Broadcaster.pendingUpdates: the tokens in the ledger
    bcasts,         \* every broadcast call made so far, by token
    rafQ,           \* callbacks given to requestAnimationFrame, not yet run
    microQ,         \* promise reactions queued, not yet run
    acts,           \* every action call made so far
    barriers,       \* nextTick: per observer, the ledger entries still awaited
    log,            \* per observer, the invocations of its callback
    destroyed,      \* observers whose destroy handle has been invoked
    thrown          \* the error the latest action or observe call threw, or "none"

vars == <<state, propsRequired, observers, obsInfo, pendingUpdates, bcasts,
          rafQ, microQ, acts, barriers, log, destroyed, thrown>>

nObs == Len(obsInfo)
nActs == Len(acts)
\* The number of commits so far; the token of a broadcast is the number of
\* the commit that made it.
version == Len(bcasts)

Task(k, id) == [k |-> k, id |-> id]

Init ==
    /\ state = InitialState
    /\ propsRequired = FALSE
    /\ observers = <<>>
    /\ obsInfo = <<>>
    /\ pendingUpdates = {}
    /\ bcasts = <<>>
    /\ rafQ = <<>>
    /\ microQ = <<>>
    /\ acts = <<>>
    /\ barriers = <<>>
    /\ log = <<>>
    /\ destroyed = {}
    /\ thrown = "none"

----------------------------------------------------------------------------
\* Helpers.

Settled(a) == acts[a].st \in {"threw", "true", "false", "rejected"}

\* The tasks of kind k for the ids of the sequence ids, in that order.
Tasks(k, ids) == [i \in 1..Len(ids) |-> Task(k, ids[i])]

\* delete this.observers[guid]
RemoveUpTo(seq, S) == SelectSeq(seq, LAMBDA x : \A y \in S : x > y)

Remove(seq, S) == SelectSeq(seq, LAMBDA x : x \notin S)

\* Broadcaster.getObserversToUpdate / allObservers: Object.values(observers),
\* a copy of the registry taken at the call.
SelectsNone == <<>>

getObserversToUpdate == observers

----------------------------------------------------------------------------
\* Client calls.

\* actions.<fn>(...args): the func built by createActions.  mode tells whether
\* the transition function returns its result or a promise of it.
InvokeAction(fn, mode) ==
    /\ nActs < MaxActions
    /\ LET result == Transition(fn, state)
           Call(st) == [fn |-> fn, mode |-> mode, partial |-> result,
                        st |-> st, tok |-> 0,
                        serial |-> \A i \in 1..nActs : Settled(i)]
       IN  IF mode = "sync" /\ ReturnsNull(fn)
           THEN \* throw new Error("Actions must output data ...")
                /\ thrown' = "ContractViolation"
                /\ acts' = Append(acts, Call("threw"))
                /\ UNCHANGED microQ
           ELSE IF mode = "sync"
           THEN \* Promise.resolve(result).then(outputData => this.update(outputData))
                /\ thrown' = "none"
                /\ acts' = Append(acts, Call("queued"))
                /\ microQ' = Append(microQ, Task("update", nActs + 1))
           ELSE \* result.then(...): nothing happens until result settles
                /\ thrown' = "none"
                /\ acts' = Append(acts, Call("awaiting"))
                /\ UNCHANGED microQ
    /\ UNCHANGED <<state, propsRequired, observers, obsInfo, pendingUpdates,
                   bcasts, rafQ, barriers, log, destroyed>>

\* The promise a transition function returned resolves (with the partial it
\* computed from the state it was called with; null for bad).
ResolveDeferred(a) ==
    /\ a \in 1..nActs
    /\ acts[a].st = "awaiting"
    /\ acts' = [acts EXCEPT ![a].st = "queued"]
    /\ microQ' = Append(microQ, Task("update", a))
    /\ UNCHANGED <<state, propsRequired, observers, obsInfo, pendingUpdates,
                   bcasts, rafQ, barriers, log, destroyed, thrown>>

\* createActions: promisified.then(outputData => this.update(outputData)) has
\* no rejection handler: what a rejection of promisified queues.
RejectedRunsUpdate(a) == Task("update", a)

OnRejected(a) == Task("reject", a)

\* The promise a transition function returned rejects: promisified.then has
\* no rejection handler, so the rejection passes to the async promise.
RejectDeferred(a) ==
    /\ a \in 1..nActs
    /\ acts[a].st = "awaiting"
    /\ acts' = [acts EXCEPT ![a].st = "rejecting"]
    /\ microQ' = Append(microQ, OnRejected(a))
    /\ UNCHANGED <<state, propsRequired, observers, obsInfo, pendingUpdates,
                   bcasts, rafQ, barriers, log, destroyed, thrown>>

\* Broadcaster.buildObserver: `propsRequired && props === undefined`
PropsNeverMissing(withProps) == FALSE

PropsMissing(withProps) == propsRequired /\ ~withProps

\* DataStore.observe(callback, props, updateImmediately).  throws tells
\* whether callback throws when invoked.
Observe(throws, withProps, updateImmediately) ==
    /\ nObs < MaxObservers
    /\ IF PropsMissing(withProps)
       THEN \* buildObserver: throw new Error("Props cannot be null ...")
            /\ thrown' = "ConfigurationError"
            /\ UNCHANGED <<observers, obsInfo, barriers, log, microQ>>
       ELSE LET o == nObs + 1
                \* nextTick: Object.values(this.pendingUpdates)
                pendingUpdatePromises == pendingUpdates
                \* atCall and verAtCall remember the state observe was called in
                Barrier(st, waits) == [st |-> st, waits |-> waits,
                                       atCall |-> state, verAtCall |-> version]
            IN  /\ thrown' = "none"
                /\ observers' = Append(observers, o)
                /\ obsInfo' = Append(obsInfo, [throws |-> throws,
                                               immediate |-> updateImmediately])
                /\ log' = Append(log, <<>>)
                /\ IF ~updateImmediately
                   THEN /\ barriers' = Append(barriers, Barrier("none", {}))
                        /\ UNCHANGED microQ
                   ELSE IF pendingUpdatePromises = {}
                   THEN \* allSettled([]) is already resolved
                        /\ barriers' = Append(barriers, Barrier("queued", {}))
                        /\ microQ' = Append(microQ, Task("tick", o))
                   ELSE /\ barriers' = Append(barriers,
                               Barrier("waiting", pendingUpdatePromises))
                        /\ UNCHANGED microQ
    /\ UNCHANGED <<state, propsRequired, pendingUpdates, bcasts, rafQ, acts,
                   destroyed>>

\* The destroy handle saveObserver returned for observer o.
DestroyCancelsBroadcasts(o) ==
    /\ o \in 1..nObs
    /\ observers' = Remove(observers, {o})
    /\ destroyed' = destroyed \cup {o}
    /\ rafQ' = SelectSeq(rafQ, LAMBDA t : \A i \in 1..Len(bcasts[t.b].targets) :
                                            bcasts[t.b].targets[i] # o)
    /\ UNCHANGED <<state, propsRequired, obsInfo, pendingUpdates, bcasts,
                   microQ, acts, barriers, log, thrown>>

Destroy(o) ==
    /\ o \in 1..nObs
    /\ observers' = Remove(observers, {o})
    /\ destroyed' = destroyed \cup {o}
    /\ UNCHANGED <<state, propsRequired, obsInfo, pendingUpdates, bcasts, rafQ,
                   microQ, acts, barriers, log, thrown>>

\* Broadcaster.destroyAll(...destroyCallbacks)
destroyAll(handles) ==
    /\ handles \subseteq 1..nObs
    /\ Cardinality(handles) >= 2
    /\ observers' = Remove(observers, handles)
    /\ destroyed' = destroyed \cup handles
    /\ UNCHANGED <<state, propsRequired, obsInfo, pendingUpdates, bcasts, rafQ,
                   microQ, acts, barriers, log, thrown>>

----------------------------------------------------------------------------
\* Queue steps.

\* DataStore.update: `equal`
NoOpNever(newState) == FALSE

NoOp(newState) == deepEqual(newState, state)

\* DataStore.update: `await this.broadcast(...)` before `return true`
ReturnsBeforeBroadcastSettles == FALSE

AwaitsBroadcast == TRUE

\* Broadcaster.broadcast: one observer.update(data) per observer of broadcastTo
DeliverToFirstOnly(tok, broadcastTo) == <<[b |-> tok, o |-> broadcastTo[1]]>>

Deliveries(tok, broadcastTo) ==
    [i \in 1..Len(broadcastTo) |-> [b |-> tok, o |-> broadcastTo[i]]]

\* BroadcasterObserver.update: the delivery promises of a broadcast that are
\* not resolved when broadcast returns (resolve() follows the callback).
ResolvedAtOnce(broadcastTo) == {}

Unresolved(broadcastTo) == {broadcastTo[i] : i \in 1..Len(broadcastTo)}

\* Broadcaster.broadcast: `broadcastTo.length === 0`
NeverNoTargets(broadcastTo) == FALSE

NoTargets(broadcastTo) == Len(broadcastTo) = 0

\* The reaction promisified.then(outputData => this.update(outputData)) of
\* action call a: update(data), up to its await.
RunUpdate(a) ==
    /\ microQ # <<>>
    /\ Head(microQ) = Task("update", a)
    /\ LET data == acts[a].partial
           newState == Merge(state, data)
       IN  IF NoOp(newState)
           THEN \* return false
                /\ acts' = [acts EXCEPT ![a].st = "resolving"]
                /\ microQ' = Append(Tail(microQ), Task("false", a))
                /\ UNCHANGED <<state, pendingUpdates, bcasts, rafQ>>
           ELSE LET broadcastTo == getObserversToUpdate
                    updateGuid == version + 1
                IN  /\ state' = Merge(state, data)
                    /\ acts' = [acts EXCEPT ![a].st = "broadcasting",
                                            ![a].tok = updateGuid]
                    /\ bcasts' = Append(bcasts,
                           [data |-> state', targets |-> broadcastTo, act |-> a,
                            unresolved |-> Unresolved(broadcastTo)])
                    /\ IF NoTargets(broadcastTo)
                       THEN \* return Promise.resolve()
                            /\ microQ' = Append(Tail(microQ), Task("true", a))
                            /\ UNCHANGED <<pendingUpdates, rafQ>>
                       ELSE /\ pendingUpdates' = pendingUpdates \cup {updateGuid}
                            /\ rafQ' = rafQ \o Deliveries(updateGuid, broadcastTo)
                            /\ microQ' = IF AwaitsBroadcast
                                         THEN Tail(microQ)
                                         ELSE Append(Tail(microQ), Task("true", a))
    /\ UNCHANGED <<propsRequired, observers, obsInfo, barriers, log, destroyed,
                   thrown>>

\* The animation-frame callbacks left once the first has run (threw: its
\* callback threw).
DropBroadcastOnThrow(threw) ==
    IF threw THEN SelectSeq(Tail(rafQ), LAMBDA t : t.b # Head(rafQ).b)
             ELSE Tail(rafQ)

RestOfFrame(threw) == Tail(rafQ)

\* BroadcasterObserver.update: the callback given to requestAnimationFrame.
\* It runs with no promise reaction left to run.  A callback that throws
\* leaves resolve() uncalled.
RunDelivery ==
    /\ microQ = <<>>
    /\ rafQ # <<>>
    /\ LET b == Head(rafQ).b
           o == Head(rafQ).o
           threw == obsInfo[o].throws
           left == bcasts[b].unresolved \ {o}
       IN  /\ log' = [log EXCEPT ![o] = Append(@,
                        [kind |-> "bcast", ver |-> b, data |-> bcasts[b].data,
                         dead |-> o \in destroyed])]
           /\ rafQ' = RestOfFrame(threw)
           /\ IF threw
              THEN UNCHANGED <<bcasts, microQ>>
              ELSE /\ bcasts' = [bcasts EXCEPT ![b].unresolved = left]
                   /\ microQ' = IF left = {}
                                THEN Append(microQ, Task("settled", b))
                                ELSE microQ
    /\ UNCHANGED <<state, propsRequired, observers, obsInfo, pendingUpdates,
                   acts, barriers, destroyed, thrown>>

\* Broadcaster.broadcast: the ledger after delete this.pendingUpdates[updateGuid]
LedgerCleared(b) == {}

LedgerWithout(b) == pendingUpdates \ {b}

\* Broadcaster.broadcast: allSettled(...).then(() => delete
\* this.pendingUpdates[updateGuid]), then what waits for that promise: the
\* nextTick barriers that captured it, and update's await.
RunSettled(b) ==
    /\ microQ # <<>>
    /\ Head(microQ) = Task("settled", b)
    /\ pendingUpdates' = LedgerWithout(b)
    /\ LET Released(o) == barriers[o].st = "waiting" /\ barriers[o].waits = {b}
           released == SelectSeq([o \in 1..nObs |-> o], Released)
       IN  /\ barriers' = [o \in 1..nObs |->
                  [barriers[o] EXCEPT !.waits = @ \ {b},
                                      !.st = IF Released(o) THEN "queued" ELSE @]]
           /\ microQ' = Tail(microQ) \o Tasks("tick", released)
                          \o (IF AwaitsBroadcast
                              THEN <<Task("true", bcasts[b].act)>> ELSE <<>>)
    /\ UNCHANGED <<state, propsRequired, observers, obsInfo, bcasts, rafQ, acts,
                   log, destroyed, thrown>>

\* DataStore.observe: the state handed to the callback by the nextTick callback
StateAtObserveCall(o) == barriers[o].atCall

ImmediateData(o) == state

\* DataStore.nextTick: the callback given to finally, for observer o.
RunNextTick(o) ==
    /\ microQ # <<>>
    /\ Head(microQ) = Task("tick", o)
    /\ microQ' = Tail(microQ)
    /\ barriers' = [barriers EXCEPT ![o].st = "done"]
    /\ log' = [log EXCEPT ![o] = Append(@,
                 [kind |-> "imm", ver |-> version, data |-> ImmediateData(o),
                  dead |-> o \in destroyed])]
    /\ UNCHANGED <<state, propsRequired, observers, obsInfo, pendingUpdates,
                   bcasts, rafQ, acts, destroyed, thrown>>

\* The async promise of action call a settles: it resolves with what update
\* returned, or rejects as the transition function's promise did.
Settle(a, how) ==
    /\ microQ # <<>>
    /\ Head(microQ) = Task(how, a)
    /\ microQ' = Tail(microQ)
    /\ acts' = [acts EXCEPT ![a].st = IF how = "reject" THEN "rejected" ELSE how]
    /\ UNCHANGED <<state, propsRequired, observers, obsInfo, pendingUpdates,
                   bcasts, rafQ, barriers, log, destroyed, thrown>>

Next ==
    \/ \E c \in Calls : InvokeAction(c[1], c[2])
    \/ \E a \in 1..MaxActions : ResolveDeferred(a)
    \/ \E a \in 1..MaxActions : RejectDeferred(a)
    \/ \E throws, withProps, updateImmediately \in BOOLEAN :
          Observe(throws, withProps, updateImmediately)
    \/ \E o \in 1..MaxObservers : Destroy(o)
    \/ \E handles \in SUBSET (1..MaxObservers) : destroyAll(handles)
    \/ \E a \in 1..MaxActions : RunUpdate(a)
    \/ RunDelivery
    \/ \E b \in 1..MaxActions : RunSettled(b)
    \/ \E o \in 1..MaxObservers : RunNextTick(o)
    \/ \E a \in 1..MaxActions, how \in {"true", "false", "reject"} : Settle(a, how)

Spec == Init /\ [][Next]_vars

\* The same store built with { propsRequired: true }.
InitPropsRequired ==
    /\ state = InitialState
    /\ propsRequired = TRUE
    /\ observers = <<>>
    /\ obsInfo = <<>>
    /\ pendingUpdates = {}
    /\ bcasts = <<>>
    /\ rafQ = <<>>
    /\ microQ = <<>>
    /\ acts = <<>>
    /\ barriers = <<>>
    /\ log = <<>>
    /\ destroyed = {}
    /\ thrown = "none"

SpecPropsRequired == InitPropsRequired /\ [][Next]_vars

----------------------------------------------------------------------------
\* Vocabulary of the properties.

\* The deliveries of broadcast b still waiting for their animation frame.
Scheduled(b) == {rafQ[i].o : i \in {j \in 1..Len(rafQ) : rafQ[j].b = b}}

TargetsOf(b) == {bcasts[b].targets[i] : i \in 1..Len(bcasts[b].targets)}

\* The invocations of o's callback on account of broadcast b.
CallsFor(o, b) ==
    {i \in 1..Len(log[o]) : log[o][i].kind = "bcast" /\ log[o][i].ver = b}

ImmediateCalls(o) == {i \in 1..Len(log[o]) : log[o][i].kind = "imm"}

\* Broadcast b had a target whose callback was invoked and threw.
Threw(b) == {o \in TargetsOf(b) : obsInfo[o].throws /\ CallsFor(o, b) # {}}

\* The state committed by commit number v.
CommitState(v) == IF v = 0 THEN InitialState ELSE bcasts[v].data

\* The step in which the update of action call a runs.
UpdateStep(a) == acts[a].st = "queued" /\ acts'[a].st # "queued"

\* { ...S, ...P } field by field.
Merged(S, P, k) == IF k \in P.keys THEN P.val[k] ELSE S[k]

----------------------------------------------------------------------------
\* C1: if one observer's callback throws during a broadcast, the aggregate
\* broadcast operation still completes and its entry is removed from the
\* pending ledger, releasing the action's settlement and every drain barrier
\* that waits for it.  Stated on the states in which every delivery of the
\* broadcast has run and no promise reaction is left to run: there the
\* broadcast is out of the ledger, its action has settled to true and no
\* barrier waits for it.
C1_ThrowingBroadcastCompletes ==
    \A b \in 1..version :
        (Threw(b) # {} /\ Scheduled(b) = {} /\ microQ = <<>>)
            => /\ b \notin pendingUpdates
               /\ acts[bcasts[b].act].st = "true"
               /\ \A o \in 1..nObs : b \notin barriers[o].waits

\* C2: once an observer's destroy handle has been invoked, its callback is
\* never invoked again (dead marks an invocation made after the handle was
\* invoked).
C2_NoCallAfterDestroy ==
    \A o \in 1..nObs : \A i \in 1..Len(log[o]) : ~log[o][i].dead

----------------------------------------------------------------------------
\* C3 as stated: observe(cb, props, true) results in cb being invoked with
\* the state that was current when observe was called.  Stated on the states
\* in which the immediate delivery has run (no later delivery can carry the
\* state of an earlier commit to an observer registered after it).
C3_ImmediateDeliversStateAtCall ==
    \A o \in 1..nObs :
        barriers[o].st = "done"
            => \E i \in 1..Len(log[o]) :
                  /\ log[o][i].ver = barriers[o].verAtCall
                  /\ log[o][i].data = barriers[o].atCall

\* C3 as amended: the immediate delivery of observe(cb, props, true) runs at
\* most once, and when it runs it invokes cb with the state current at that
\* moment, which is the state observe was called in or that of a later commit.
C3_ImmediateDeliversCurrentState ==
    /\ [][\A o \in 1..nObs :
            (barriers[o].st # "done" /\ barriers'[o].st = "done")
                => /\ Len(log'[o]) = Len(log[o]) + 1
                   /\ log'[o][Len(log'[o])].kind = "imm"
                   /\ log'[o][Len(log'[o])].data = state
                   /\ state' = state]_vars
    /\ [](\A o \in 1..nObs :
            /\ Cardinality(ImmediateCalls(o)) <= 1
            /\ (ImmediateCalls(o) # {}) => obsInfo[o].immediate
            /\ \A i \in ImmediateCalls(o) :
                  /\ log[o][i].ver >= barriers[o].verAtCall
                  /\ log[o][i].data = CommitState(log[o][i].ver))

\* A commit was made between the observe call and its immediate delivery.
C3_Witness ==
    \E o \in 1..nObs : \E i \in ImmediateCalls(o) :
        /\ log[o][i].ver > barriers[o].verAtCall
        /\ log[o][i].data # barriers[o].atCall

----------------------------------------------------------------------------
\* C4 as stated: an action whose transition function returns null yields a
\* settlement that rejects.
C4_NullRejectsSettlement ==
    \A a \in 1..nActs :
        (acts[a].fn = "bad" /\ acts[a].mode = "sync")
            => acts[a].st \in {"rejecting", "rejected"}

\* C4 as amended: an action whose transition function returns null throws a
\* ContractViolation error from the action call itself and returns no
\* settlement; the state is unchanged, no update is queued and no broadcast
\* is made.
C4_NullThrowsSynchronously ==
    /\ [][(nActs' = nActs + 1 /\ acts'[nActs'].fn = "bad"
                              /\ acts'[nActs'].mode = "sync")
            => /\ thrown' = "ContractViolation"
               /\ acts'[nActs'].st = "threw"
               /\ UNCHANGED <<state, bcasts, pendingUpdates, rafQ, microQ, log>>]_vars
    /\ [](\A a \in 1..nActs :
            (acts[a].fn = "bad" /\ acts[a].mode = "sync")
                => /\ acts[a].st = "threw"
                   /\ acts[a].tok = 0
                   /\ \A i \in 1..Len(microQ) :
                         microQ[i].k \in {"update", "true", "false", "reject"}
                             => microQ[i].id # a
                   /\ \A b \in 1..version : bcasts[b].act # a)

\* The call threw in a store that has an observer and an earlier commit.
C4_Witness ==
    \E a \in 1..nActs :
        /\ acts[a].st = "threw"
        /\ thrown = "ContractViolation"
        /\ observers # <<>>
        /\ version > 0

----------------------------------------------------------------------------
\* C5: when the resolved partial P of an action call, merged over the state S
\* held when the commit step runs, is deeply equal to S, the commit step
\* leaves the state, the ledger, the broadcasts made, the scheduled
\* deliveries and every callback log as they are and the settlement resolves
\* to false.
C5_NoOpSettlesFalse ==
    /\ [][\A a \in 1..nActs :
            (UpdateStep(a) /\ deepEqual([k \in Fields |-> Merged(state, acts[a].partial, k)], state))
                => /\ UNCHANGED <<state, pendingUpdates, bcasts, rafQ, log, barriers>>
                   /\ acts'[a].st = "resolving"
                   /\ microQ' = Append(Tail(microQ), Task("false", a))]_vars
    /\ [][\A a \in 1..nActs :
            acts[a].st = "resolving" => acts'[a].st \in {"resolving", "false"}]_vars
    /\ [](\A a \in 1..nActs :
            acts[a].st \in {"resolving", "false"}
                => /\ acts[a].tok = 0
                   /\ \A b \in 1..version : bcasts[b].act # a)

\* A no-op settled to false with an observer registered, its partial writing
\* a field (with a value == to the one held).
C5_Witness ==
    \E a \in 1..nActs :
        /\ acts[a].st = "false"
        /\ acts[a].partial.keys # {}
        /\ observers # <<>>
        /\ version > 0

----------------------------------------------------------------------------
\* C6: when the resolved partial P merged over the state S held when the
\* commit step runs is not deeply equal to S, the state right after the
\* commit step has P's value at every field P has and S's value at every
\* other field; and when every action is invoked only after the settlement of
\* the ones before it, each append that committed left one more item.
C6_CommitIsShallowMerge ==
    /\ [][\A a \in 1..nActs :
            (UpdateStep(a) /\ ~deepEqual([k \in Fields |-> Merged(state, acts[a].partial, k)], state))
                => /\ DOMAIN state' = Fields
                   /\ \A k \in Fields : state'[k] = Merged(state, acts[a].partial, k)
                   /\ acts'[a].st = "broadcasting"]_vars
    /\ []((\A a \in 1..nActs : acts[a].serial)
            => Len(state.items) = Cardinality({a \in 1..nActs :
                     acts[a].fn = "add" /\ acts[a].st \in {"broadcasting", "true"}}))

\* The append invoked twice, the second after the first settled: two items.
C6_Witness ==
    /\ nActs >= 2
    /\ \A a \in 1..nActs : acts[a].serial /\ acts[a].fn = "add" /\ acts[a].st = "true"
    /\ Len(state.items) = 2

----------------------------------------------------------------------------
\* C7: each call broadcast(S) has the callback of every observer in the
\* target set at the time of the call invoked exactly once on account of that
\* broadcast, with the full state S: the targets are the registry at the
\* call and S is the state just committed; for each target the delivery is
\* either scheduled or has been made, never both and never twice; no other
\* observer gets one.
C7_OneDeliveryPerTarget ==
    /\ [][Len(bcasts') # Len(bcasts)
            => /\ Len(bcasts') = Len(bcasts) + 1
               /\ bcasts'[Len(bcasts')].targets = observers
               /\ bcasts'[Len(bcasts')].data = state'
               /\ DOMAIN state' = Fields]_vars
    /\ [](\A b \in 1..version : \A o \in 1..nObs :
            /\ Cardinality(CallsFor(o, b))
                 + Cardinality({j \in 1..Len(rafQ) : rafQ[j] = [b |-> b, o |-> o]})
                 = IF o \in TargetsOf(b) THEN 1 ELSE 0
            /\ \A i \in CallsFor(o, b) : log[o][i].data = bcasts[b].data)

\* A broadcast to two observers has reached both.
C7_Witness ==
    \E b \in 1..version :
        /\ Cardinality(TargetsOf(b)) = 2
        /\ \A o \in TargetsOf(b) : Cardinality(CallsFor(o, b)) = 1

----------------------------------------------------------------------------
\* C8: if one observer's callback throws during delivery of a broadcast of S,
\* every other observer targeted by the same broadcast still has its callback
\* invoked with S: the throw leaves every other scheduled delivery in place,
\* and each other target of that broadcast either still has its delivery
\* scheduled or was invoked with S, its delivery resolved unless it threw too.
C8_ThrowIsolated ==
    /\ [][(Len(rafQ') < Len(rafQ) /\ obsInfo[Head(rafQ).o].throws)
            => /\ rafQ' = Tail(rafQ)
               /\ \A o2 \in 1..nObs \ {Head(rafQ).o} : log'[o2] = log[o2]]_vars
    /\ [](\A b \in 1..version : \A o \in Threw(b) :
            \A o2 \in TargetsOf(b) \ {o} :
                \/ o2 \in Scheduled(b)
                \/ /\ \E i \in CallsFor(o2, b) : log[o2][i].data = bcasts[b].data
                   /\ ~obsInfo[o2].throws => o2 \notin bcasts[b].unresolved)

\* The first target threw and the second was then invoked with S.
C8_Witness ==
    \E b \in 1..version :
        /\ Len(bcasts[b].targets) = 2
        /\ bcasts[b].targets[1] \in Threw(b)
        /\ ~obsInfo[bcasts[b].targets[2]].throws
        /\ CallsFor(bcasts[b].targets[2], b) # {}

----------------------------------------------------------------------------
\* C9 as stated: the settlement of an action whose merged result differs from
\* the state resolves to true as soon as the broadcast has been initiated,
\* without waiting for the deliveries: from the commit step on, the
\* settlement is resolved or its resolution is the next thing queued for it.
C9_SettlesOnceInitiated ==
    \A a \in 1..nActs :
        acts[a].tok # 0
            => \/ acts[a].st = "true"
               \/ \E i \in 1..Len(microQ) : microQ[i] = Task("true", a)

\* C9 as amended: the settlement of an action whose merged result differs
\* from the state resolves to true only after every observer delivery of its
\* broadcast has run: none is still scheduled and every target's callback has
\* been invoked with the committed state.
C9_SettlesAfterDeliveries ==
    \A a \in 1..nActs :
        acts[a].st = "true"
            => /\ acts[a].tok \in 1..version
               /\ bcasts[acts[a].tok].act = a
               /\ Scheduled(acts[a].tok) = {}
               /\ \A o \in TargetsOf(acts[a].tok) : CallsFor(o, acts[a].tok) # {}

\* An action settled to true after its broadcast reached an observer.
C9_Witness ==
    \E a \in 1..nActs :
        /\ acts[a].st = "true"
        /\ TargetsOf(acts[a].tok) # {}

----------------------------------------------------------------------------
\* C10: at the moment an action's async promise resolves to true, the
\* broadcast of that action call has completed: every delivery of it has
\* settled and its entry is out of the pending ledger (and stays out).
C10_ResolvedMeansBroadcastComplete ==
    /\ [][\A a \in 1..nActs :
            (acts[a].st # "true" /\ acts'[a].st = "true")
                => /\ bcasts[acts[a].tok].unresolved = {}
                   /\ acts[a].tok \notin pendingUpdates
                   /\ acts[a].tok \notin pendingUpdates']_vars
    /\ [](\A a \in 1..nActs :
            acts[a].st = "true"
                => /\ bcasts[acts[a].tok].unresolved = {}
                   /\ acts[a].tok \notin pendingUpdates)

\* An action resolved to true whose broadcast had two deliveries and had been
\* in the ledger.
C10_Witness ==
    \E a \in 1..nActs :
        /\ acts[a].st = "true"
        /\ Cardinality(TargetsOf(acts[a].tok)) = 2
        /\ pendingUpdates = {}

----------------------------------------------------------------------------
\* The part of C11 that is about order: the nextTick callback of observer o
\* has run at most once; it is queued or has run only with none of the ledger
\* entries captured at the call left; while it waits, it waits for such an
\* entry only, all of them made before the call.
BarrierInOrder(o) ==
    /\ Cardinality(ImmediateCalls(o)) <= 1
    /\ (barriers[o].st = "done") <=> (ImmediateCalls(o) # {})
    /\ barriers[o].st \in {"queued", "done"} => barriers[o].waits = {}
    /\ barriers[o].st = "waiting"
          => /\ barriers[o].waits # {}
             /\ barriers[o].waits \subseteq pendingUpdates
             /\ \A b \in barriers[o].waits : b <= barriers[o].verAtCall

\* C11: nextTick(callback) runs callback exactly once, never before every
\* broadcast that was in the ledger at the call has settled and without
\* waiting for those added later.  Stated on every state for the order, and
\* for "runs" on the states in which no animation-frame callback and no
\* promise reaction is left to run: there the callback has run.
C11_NextTickRunsOnce ==
    \A o \in 1..nObs :
        obsInfo[o].immediate
            => /\ BarrierInOrder(o)
               /\ (microQ = <<>> /\ rafQ = <<>>) => barriers[o].st = "done"

----------------------------------------------------------------------------
\* C12: on a store built with propsRequired = true, observe(cb) with no params
\* fails with a ConfigurationError before any observer is registered: the
\* registry and the observers built are unchanged, no immediate delivery is
\* scheduled and no callback is invoked; so every step that changes the
\* registry or the observers built is an observe with params.
C12_NoPropsThrowsBeforeRegistering ==
    /\ [][(\E throws, updateImmediately \in BOOLEAN :
              Observe(throws, FALSE, updateImmediately))
            => /\ thrown' = "ConfigurationError"
               /\ UNCHANGED <<observers, obsInfo, barriers, microQ, rafQ, log,
                              pendingUpdates, bcasts, state, destroyed>>]_vars
    /\ [][nObs' # nObs
            => /\ thrown' = "none"
               /\ \E throws, updateImmediately \in BOOLEAN :
                     Observe(throws, TRUE, updateImmediately)]_vars

\* observe without params threw in a store that has an observer (registered
\* with params) and a broadcast in flight.
C12_Witness ==
    /\ thrown = "ConfigurationError"
    /\ Len(observers) = 1
    /\ nObs = 1
    /\ pendingUpdates # {}

----------------------------------------------------------------------------
\* C13: if an action's transition function returns a promise that rejects,
\* the action's settlement rejects; the rejection and the settlement leave
\* the state, the broadcasts made, the ledger, the scheduled deliveries and
\* the callback logs as they are, and no commit is ever made for that call.
C13_RejectionPropagates ==
    /\ [][\A a \in 1..nActs :
            (acts[a].st = "awaiting" /\ acts'[a].st \notin {"awaiting", "queued"})
                => /\ acts'[a].st = "rejecting"
                   /\ microQ' = Append(microQ, Task("reject", a))
                   /\ UNCHANGED <<state, bcasts, pendingUpdates, rafQ, log>>]_vars
    /\ [][\A a \in 1..nActs :
            acts[a].st = "rejecting"
                => \/ acts'[a] = acts[a]
                   \/ /\ acts'[a] = [acts[a] EXCEPT !.st = "rejected"]
                      /\ UNCHANGED <<state, bcasts, pendingUpdates, rafQ, log>>]_vars
    /\ [](\A a \in 1..nActs :
            acts[a].st \in {"rejecting", "rejected"}
                => /\ acts[a].mode = "deferred"
                   /\ acts[a].tok = 0
                   /\ \A b \in 1..version : bcasts[b].act # a)

\* An append whose promise rejected, in a store with an observer: rejected
\* settlement, nothing appended, nothing delivered.
C13_Witness ==
    \E a \in 1..nActs :
        /\ acts[a].st = "rejected"
        /\ acts[a].fn = "add"
        /\ observers # <<>>
        /\ state = InitialState

----------------------------------------------------------------------------
\* C14: after N observers are registered and the destroy handles of M of them
\* are invoked, in any order and any number of times each (destroyAll
\* included), the registry holds exactly the N-M observers never destroyed,
\* each once and in registration order; a broadcast issued then targets
\* exactly those; and invoking handles removes the observers of those handles
\* and no other.
C14_RegistryIsTheUndestroyed ==
    /\ [](/\ {observers[i] : i \in 1..Len(observers)} = (1..nObs) \ destroyed
          /\ Len(observers) = nObs - Cardinality(destroyed)
          /\ \A i, j \in 1..Len(observers) : i < j => observers[i] < observers[j])
    /\ [][Len(bcasts') # Len(bcasts)
            => LET t == bcasts'[Len(bcasts')].targets
               IN  /\ {t[i] : i \in 1..Len(t)} = (1..nObs) \ destroyed
                   /\ Len(t) = nObs - Cardinality(destroyed)]_vars
    /\ [][destroyed' # destroyed
            => /\ destroyed \subseteq destroyed'
               /\ observers' = SelectSeq(observers, LAMBDA x : x \notin destroyed')]_vars

\* Two observers registered, the first destroyed, and a broadcast issued
\* afterwards that targeted the second alone.
C14_Witness ==
    /\ nObs = 2
    /\ destroyed = {1}
    /\ \E b \in 1..version : bcasts[b].targets = <<2>>

----------------------------------------------------------------------------
\* C15: the target set of a broadcast is a snapshot taken at the broadcast
\* call.  A step that changes the registry (an unsubscribe, also one made
\* right after a callback of the pass, or a subscribe) changes no broadcast's
\* targets and leaves the scheduled deliveries of every observer other than
\* the ones it unsubscribes as they were; every target stays scheduled until
\* it is delivered to; and an observer registered after the broadcast call
\* is neither a target of that broadcast nor delivered to by it.
C15_TargetsAreASnapshot ==
    /\ [][observers' # observers
            => LET gone == destroyed' \ destroyed
                   Others(q) == SelectSeq(q, LAMBDA t : t.o \notin gone)
               IN  /\ Len(bcasts') = Len(bcasts)
                   /\ \A b \in 1..Len(bcasts) :
                         bcasts'[b].targets = bcasts[b].targets
                   /\ Others(rafQ') = Others(rafQ)]_vars
    /\ [](\A b \in 1..version :
             /\ \A o \in TargetsOf(b) : o \in Scheduled(b) \/ CallsFor(o, b) # {}
             /\ \A o \in 1..nObs :
                   barriers[o].verAtCall >= b
                       => /\ o \notin TargetsOf(b)
                          /\ o \notin Scheduled(b)
                          /\ CallsFor(o, b) = {})

\* A pass of two targets in which the first was delivered to and then
\* unsubscribed while the delivery to the second is still scheduled.
C15_Witness ==
    \E b \in 1..version :
        /\ bcasts[b].targets = <<1, 2>>
        /\ 1 \in destroyed
        /\ \E i \in CallsFor(1, b) : ~log[1][i].dead
        /\ 2 \in Scheduled(b)

----------------------------------------------------------------------------
\* C16: actions are not serialized.  The action call runs the transition
\* function against the state current at the call and commits nothing (an
\* append is computed from the items of that state); the partial it computed
\* is never recomputed; and every commit is that partial merged over the
\* state the previous commit left, the store's state being the last commit's
\* (last-commit-wins).
C16_TransitionReadsStateAtCall ==
    /\ [][nActs' # nActs
            => /\ nActs' = nActs + 1
               /\ state' = state
               /\ bcasts' = bcasts
               /\ acts'[nActs'].fn = "add"
                     => /\ acts'[nActs'].partial.keys = {"items"}
                        /\ acts'[nActs'].partial.val.items
                              = Append(state.items, Milk)]_vars
    /\ [][\A a \in 1..nActs : acts'[a].partial = acts[a].partial]_vars
    /\ [](/\ state = CommitState(version)
          /\ \A v \in 1..version : \A k \in Fields :
                bcasts[v].data[k]
                   = Merged(CommitState(v - 1), acts[bcasts[v].act].partial, k))

\* Two appends, the second called before the first had settled, both settled,
\* and a single item in the state: the second append's update was lost.
C16_Witness ==
    /\ nActs = 2
    /\ acts[1].fn = "add" /\ acts[2].fn = "add"
    /\ ~acts[2].serial
    /\ Settled(1) /\ Settled(2)
    /\ acts[1].st # "rejected" /\ acts[2].st # "rejected"
    /\ Len(state.items) = 1

----------------------------------------------------------------------------
\* C17: no observer callback is invoked within the action call or within the
\* broadcast call: a callback is invoked on account of a broadcast only by an
\* animation-frame callback that broadcast scheduled, run with no promise
\* reaction left to run, in a step that is neither an action call nor a
\* broadcast call; and the delivery promise of a target is resolved only if
\* the target's callback has been invoked for that broadcast.
C17_DeliveryIsDeferred ==
    /\ [][(nActs' # nActs \/ Len(bcasts') # Len(bcasts)) => log' = log]_vars
    /\ [][\A o \in 1..nObs :
             (Len(log'[o]) # Len(log[o]) /\ log'[o][Len(log'[o])].kind = "bcast")
                => /\ microQ = <<>>
                   /\ rafQ # <<>>
                   /\ Head(rafQ) = [b |-> log'[o][Len(log'[o])].ver, o |-> o]
                   /\ Len(rafQ') = Len(rafQ) - 1
                   /\ log'[o] = Append(log[o], log'[o][Len(log'[o])])]_vars
    /\ [](\A b \in 1..version : \A o \in TargetsOf(b) :
             o \notin bcasts[b].unresolved => CallsFor(o, b) # {})

\* A pass of two targets, midway: the first target's callback has run and
\* its delivery is resolved, the second is scheduled and unresolved, and the
\* action is still waiting for the broadcast.
C17_Witness ==
    \E b \in 1..version :
        /\ bcasts[b].targets = <<1, 2>>
        /\ CallsFor(1, b) # {}
        /\ 1 \notin bcasts[b].unresolved
        /\ 2 \in bcasts[b].unresolved
        /\ 2 \in Scheduled(b)
        /\ CallsFor(2, b) = {}
        /\ acts[bcasts[b].act].st = "broadcasting"

----------------------------------------------------------------------------
\* C18: a broadcast with a non-empty target set is in the pending ledger,
\* under its own token, from the broadcast call until all of its deliveries
\* have settled.  The ledger holds tokens of such broadcasts only; an entry
\* with an unsettled delivery is in the ledger; an entry whose deliveries
\* have all settled is in the ledger only while the reaction that deletes it
\* waits to run; and a step takes out of the ledger nothing but one entry
\* whose deliveries have all settled, and puts into it nothing but the token
\* of the broadcast made in that step.
C18_LedgerEntryLivesUntilSettled ==
    /\ [](/\ pendingUpdates \subseteq {b \in 1..version : bcasts[b].targets # <<>>}
          /\ \A b \in 1..version :
                /\ bcasts[b].unresolved # {} => b \in pendingUpdates
                /\ (b \in pendingUpdates /\ bcasts[b].unresolved = {})
                      => \E i \in 1..Len(microQ) : microQ[i] = Task("settled", b))
    /\ [][pendingUpdates' # pendingUpdates
            => \/ /\ Len(bcasts') = Len(bcasts) + 1
                  /\ bcasts'[Len(bcasts')].targets # <<>>
                  /\ pendingUpdates' = pendingUpdates \cup {Len(bcasts')}
               \/ \E b \in pendingUpdates :
                     /\ bcasts[b].unresolved = {}
                     /\ pendingUpdates' = pendingUpdates \ {b}]_vars

\* Two broadcasts with targets: the first has left the ledger with all of its
\* deliveries settled, the second is in it with a delivery unsettled.
C18_Witness ==
    /\ version = 2
    /\ bcasts[1].targets # <<>>
    /\ bcasts[1].unresolved = {}
    /\ bcasts[2].unresolved # {}
    /\ pendingUpdates = {2}

----------------------------------------------------------------------------
\* C19: a broadcast whose target set is empty resolves at once and has no
\* side effect.  The step that makes it commits the new state, queues the
\* action's settlement to true, and changes neither the ledger nor the
\* registry nor the scheduled deliveries nor any callback's invocations nor a
\* drain barrier; such a broadcast is never in the ledger, has no delivery
\* and no invocation, and its action is settled to true or about to be.
C19_EmptyBroadcastHasNoEffect ==
    /\ [][(Len(bcasts') # Len(bcasts) /\ observers = <<>>)
            => LET b == Len(bcasts')
               IN  /\ bcasts'[b].targets = <<>>
                   /\ state' = bcasts'[b].data
                   /\ ~deepEqual(state', state)
                   /\ microQ' = Append(Tail(microQ), Task("true", bcasts'[b].act))
                   /\ UNCHANGED <<pendingUpdates, observers, rafQ, log, barriers,
                                  destroyed>>]_vars
    /\ [](\A b \in 1..version :
             bcasts[b].targets = <<>>
                => /\ b \notin pendingUpdates
                   /\ Scheduled(b) = {}
                   /\ \A o \in 1..nObs : CallsFor(o, b) = {}
                   /\ \/ acts[bcasts[b].act].st = "true"
                      \/ /\ acts[bcasts[b].act].st = "broadcasting"
                         /\ \E i \in 1..Len(microQ) :
                               microQ[i] = Task("true", bcasts[b].act))

\* An action on a store without observers changed the state and settled to
\* true.
C19_Witness ==
    \E a \in 1..nActs :
        /\ acts[a].st = "true"
        /\ acts[a].tok > 0
        /\ bcasts[acts[a].tok].targets = <<>>
        /\ nObs = 0
        /\ state # InitialState

----------------------------------------------------------------------------
\* C20: each observer receives states in commit order: once its callback has
\* been invoked with the state of a commit (by a broadcast, or by the
\* immediate delivery of observe), it is never afterwards invoked with the
\* state of an earlier commit.
C20_DeliveriesInCommitOrder ==
    \A o \in 1..nObs : \A i, j \in 1..Len(log[o]) :
        i < j => log[o][i].ver <= log[o][j].ver

----------------------------------------------------------------------------
\* The store is quiescent: every action called has settled, the ledger is
\* empty, and no immediate delivery is waiting or queued.
Quiescent ==
    /\ \A a \in 1..nActs : Settled(a)
    /\ pendingUpdates = {}
    /\ \A o \in 1..nObs : barriers[o].st \in {"none", "done"}

\* C21: at quiescence, if no observer's callback throws, the latest
\* invocation of the callback of every registered observer that subscribed
\* with immediate delivery was made with the store's current state.
C21_QuiescentObserversAreCurrent ==
    (Quiescent /\ \A o \in 1..nObs : ~obsInfo[o].throws)
        => \A i \in 1..Len(observers) :
              LET o == observers[i]
              IN  obsInfo[o].immediate
                     => /\ log[o] # <<>>
                        /\ log[o][Len(log[o])].data = state

\* A quiescent store after two commits, with a registered observer that got
\* its immediate delivery first and the second commit's broadcast last.
C21_Witness ==
    /\ Quiescent
    /\ \A o \in 1..nObs : ~obsInfo[o].throws
    /\ version = 2
    /\ state # bcasts[1].data
    /\ \E i \in 1..Len(observers) :
          LET o == observers[i]
          IN  /\ obsInfo[o].immediate
              /\ log[o][1].kind = "imm"
              /\ log[o][Len(log[o])].kind = "bcast"
              /\ log[o][Len(log[o])].ver = 2

====
